---- MODULE Spec2Model ----
(***************************************************************************)
(* CSRFMiddleware (security/csrf.py) as a state machine.                   *)
(*                                                                         *)
(* One session store entry (the session's "csrf_token" key) is shared by   *)
(* the requests that carry the session; every request runs dispatch() as a *)
(* sequence of steps named after the source lines they execute.            *)
(*                                                                         *)
(* Strings that the code only compares are TLA+ strings; None is the value *)
(* None below.  Strings the code tests with startswith (the URL path, the  *)
(* content-type header) are sequences of chunks, so that a prefix test is  *)
(* a real prefix test.                                                     *)
(***************************************************************************)
EXTENDS Naturals, Sequences, FiniteSets, TLC

VARIABLES
    session,           \* the session's "csrf_token" entry: None (key absent) or a string
    pc,                \* pc[r]: where request r stands in dispatch()
    request,           \* request[r]: scope, method, url.path, headers, body
    state_csrf_token,  \* request.state.csrf_token of r (Unset before line 31/33)
    branch,            \* the line at which r left lines 36-66 (39, 44, 66 or 68)
    calls,             \* number of times r invoked call_next
    response,          \* what call_next returned to r
    result,            \* what dispatch() returned or raised for r
    rendered,          \* rendered[r]: the calls of generate_csrf_token(request) for r
    sanitizer,         \* the last call of a sanitizer of xss_protection.py
    hdr                \* the request AddSecurityHeadersMiddleware.dispatch handles

vars == <<session, pc, request, state_csrf_token, branch, calls, response,
          result, rendered, sanitizer, hdr>>

---------------------------------------------------------------------------
(* Bounds *)

NumRequests == 2
MaxTokens == 2

Requests == 1..NumRequests

---------------------------------------------------------------------------
(* Values *)

None == "None"
Unset == "Unset"
Malformed == "Malformed"

TokenNames == <<"T1", "T2", "T3", "T4">>

\* the values secrets.token_urlsafe(32) can return (non-empty strings)
Tokens == {TokenNames[i] : i \in 1..MaxTokens}

\* an optional string: a form field or a header that may be missing
OptStr == {None, ""} \cup Tokens

Methods == {"GET", "HEAD", "OPTIONS", "TRACE", "POST", "PUT", "DELETE", "PATCH"}

\* URL paths, as sequences of chunks
UploadImage == <<"/upload-image">>
UploadVideo == <<"/upload-video">>
Paths == {UploadImage, <<"/upload-video", "/1">>, <<"/upload">>, <<"/login">>}

\* content-type header values, as sequences of chunks (<<>> is "", the default
\* of headers.get when the header is missing)
FormUrlencoded == <<"application/x-www-form-urlencoded">>
MultipartFormData == <<"multipart/form-data">>
ContentTypes == {<<>>, FormUrlencoded, <<"multipart/form-data", "; boundary=x">>,
                 <<"application/json">>}

\* what the downstream handler may answer
Responses == {[kind |-> "response", status |-> s, detail |-> ""] : s \in {200, 302}}

NoResult == [kind |-> "none", status |-> 0, detail |-> ""]

NoRequest == [has_session |-> FALSE, method |-> "GET", path |-> <<>>,
              content_type |-> <<>>, body |-> None, header |-> None]

\* every request the model enumerates: body is the csrf_token field of the
\* form the body parses to (None when the field is missing), or Malformed
\* when request.form() raises
Inputs == [has_session : BOOLEAN, method : Methods, path : Paths,
           content_type : ContentTypes, body : OptStr \cup {Malformed},
           header : OptStr]

\* the requests used when several requests are in flight at once
\* (a GET, a POST with a form token, a POST to an exempt path, a POST without
\* session)
ConcInputs == {i \in Inputs :
                 /\ i.content_type = FormUrlencoded
                 /\ i.header = None
                 /\ \/ i.has_session /\ i.method = "GET" /\ i.path = <<"/login">>
                       /\ i.body = None
                    \/ i.has_session /\ i.method = "POST" /\ i.path = <<"/login">>
                       /\ i.body = "T1"
                    \/ i.has_session /\ i.method = "POST" /\ i.path = UploadImage
                       /\ i.body = None
                    \/ ~i.has_session /\ i.method = "POST" /\ i.path = <<"/login">>
                       /\ i.body = None}

\* the answer used when several requests are in flight at once
ConcResponses == {r \in Responses : r.status = 200}

---------------------------------------------------------------------------
(* Pure parts of dispatch() *)

\* str.startswith
StartsWith(s, prefix) ==
    /\ Len(s) >= Len(prefix)
    /\ SubSeq(s, 1, Len(prefix)) = prefix

\* Python truthiness of an optional string: None and "" are falsy
Truthy(x) == x # None /\ x # ""

\* a or b
PyOr(a, b) == IF Truthy(a) THEN a ELSE b

\* session.get("csrf_token", default)
SessionGet(s, default) == IF s = None THEN default ELSE s

\* line 26 with the test of the session's key inverted
NeedsToken_Inverted(has_session, s) == has_session /\ s # None

\* line 26 without the test of has_session
NeedsToken_NoSessionTest(has_session, s) == s = None

\* line 26 without the test of the session's key
NeedsToken_Always(has_session, s) == has_session

\* line 26: has_session and "csrf_token" not in request.session
NeedsToken(has_session, s) == has_session /\ s = None

\* lines 30-33 storing the default instead of the session's token
StateToken_Default(has_session, s) == ""

\* lines 30-33
StateToken(has_session, s) == IF has_session THEN SessionGet(s, "") ELSE ""

\* line 36 with the method test dropped
StateMutating_All(method) == TRUE

\* line 36
StateMutating(method) == method \in {"POST", "PUT", "DELETE", "PATCH"}

skip_paths == <<UploadImage, UploadVideo>>

\* _should_skip_csrf looking at the first entry only
should_skip_csrf_First(path) == StartsWith(path, skip_paths[1])

\* _should_skip_csrf, lines 71-78
should_skip_csrf(path) ==
    \E i \in 1..Len(skip_paths) : StartsWith(path, skip_paths[i])

\* lines 48-55 without the try/except around request.form()
FormToken_NoExcept(content_type, body) ==
    IF StartsWith(content_type, FormUrlencoded)
       \/ StartsWith(content_type, MultipartFormData)
    THEN body
    ELSE None

\* lines 48-55: the form is parsed only for the two form content types, and a
\* failure of request.form() is swallowed by the bare except
FormToken(content_type, body) ==
    IF StartsWith(content_type, FormUrlencoded)
       \/ StartsWith(content_type, MultipartFormData)
    THEN IF body = Malformed THEN None ELSE body
    ELSE None

\* line 60 with the operands swapped
SubmittedToken_HeaderFirst(form_token, header_token) ==
    PyOr(header_token, form_token)

\* line 60
SubmittedToken(form_token, header_token) == PyOr(form_token, header_token)

\* line 64 without the comparison of the two tokens
ValidationFails_NoCompare(submitted_token, session_token) ==
    \/ ~Truthy(submitted_token)
    \/ ~Truthy(session_token)

\* line 64
ValidationFails(submitted_token, session_token) ==
    \/ ~Truthy(submitted_token)
    \/ ~Truthy(session_token)
    \/ submitted_token # session_token

\* line 66
HTTPException403 ==
    [kind |-> "HTTPException", status |-> 403,
     detail |-> "CSRF token validation failed"]

\* what would leave dispatch() if request.form() raised outside the try
FormParseError ==
    [kind |-> "Exception", status |-> 500, detail |-> "form parse error"]

\* line 40 without its return: control goes on to a second call_next
AfterCallNext_FallThrough(site) == IF site = "l39" THEN "call" ELSE "return"

\* lines 40, 45, 69: after call_next returns, dispatch returns the response
AfterCallNext(site) == "return"

---------------------------------------------------------------------------
(* State machine *)

\* no sanitizer was called yet
NoCall == [func |-> "none", input |-> <<>>, output |-> <<>>]

\* AddSecurityHeadersMiddleware handles no request
NoHdr == [pc |-> "idle", path |-> <<>>, downstream |-> <<>>, headers |-> <<>>]

Init ==
    /\ session = None
    /\ pc = [r \in Requests |-> "idle"]
    /\ request = [r \in Requests |-> NoRequest]
    /\ state_csrf_token = [r \in Requests |-> Unset]
    /\ branch = [r \in Requests |-> "none"]
    /\ calls = [r \in Requests |-> 0]
    /\ response = [r \in Requests |-> NoResult]
    /\ result = [r \in Requests |-> NoResult]
    /\ rendered = [r \in Requests |-> <<>>]
    /\ sanitizer = NoCall
    /\ hdr = NoHdr

\* a request enters dispatch(); line 23 reads has_session from the scope
Arrive(r, inputs) ==
    /\ pc[r] = "idle"
    /\ \E i \in inputs : request' = [request EXCEPT ![r] = i]
    /\ pc' = [pc EXCEPT ![r] = "l26"]
    /\ UNCHANGED <<rendered, sanitizer, hdr>>
    /\ UNCHANGED <<session, state_csrf_token, branch, calls,
                   response, result>>

\* line 26: the test
Check26(r) ==
    /\ pc[r] = "l26"
    /\ pc' = [pc EXCEPT ![r] = IF NeedsToken(request[r].has_session, session)
                               THEN "l27" ELSE "l30"]
    /\ UNCHANGED <<rendered, sanitizer, hdr>>
    /\ UNCHANGED <<session, request, state_csrf_token, branch, calls,
                   response, result>>

\* line 27 generating a token without storing it in the session
Gen27_NoStore(r) ==
    /\ pc[r] = "l27"
    /\ pc' = [pc EXCEPT ![r] = "l30"]
    /\ UNCHANGED <<rendered, sanitizer, hdr>>
    /\ UNCHANGED <<session, request, state_csrf_token, branch, calls,
                   response, result>>

\* line 27: the store of a fresh token
Gen27(r) ==
    /\ pc[r] = "l27"
    /\ \E t \in Tokens : session' = t
    /\ pc' = [pc EXCEPT ![r] = "l30"]
    /\ UNCHANGED <<rendered, sanitizer, hdr>>
    /\ UNCHANGED <<request, state_csrf_token, branch, calls,
                   response, result>>

\* lines 30-33
SetState(r) ==
    /\ pc[r] = "l30"
    /\ state_csrf_token' = [state_csrf_token EXCEPT
                              ![r] = StateToken(request[r].has_session, session)]
    /\ pc' = [pc EXCEPT ![r] = "l36"]
    /\ UNCHANGED <<rendered, sanitizer, hdr>>
    /\ UNCHANGED <<session, request, branch, calls, response,
                   result>>

\* lines 36-66: the decision.  The session is read once, at line 61.
Validate(r) ==
    /\ pc[r] = "l36"
    /\ LET q == request[r]
           form_token == FormToken(q.content_type, q.body)
           header_token == q.header
           submitted_token == SubmittedToken(form_token, header_token)
           session_token == SessionGet(session, None)
       IN  IF ~StateMutating(q.method)
           THEN /\ branch' = [branch EXCEPT ![r] = "l68"]
                /\ pc' = [pc EXCEPT ![r] = "call"]
                /\ UNCHANGED result
           ELSE IF should_skip_csrf(q.path)
           THEN /\ branch' = [branch EXCEPT ![r] = "l39"]
                /\ pc' = [pc EXCEPT ![r] = "call"]
                /\ UNCHANGED result
           ELSE IF ~q.has_session
           THEN /\ branch' = [branch EXCEPT ![r] = "l44"]
                /\ pc' = [pc EXCEPT ![r] = "call"]
                /\ UNCHANGED result
           ELSE IF form_token = Malformed
           THEN \* an exception of request.form() that line 54 did not catch
                /\ branch' = [branch EXCEPT ![r] = "l52"]
                /\ pc' = [pc EXCEPT ![r] = "raised"]
                /\ result' = [result EXCEPT ![r] = FormParseError]
           ELSE IF ValidationFails(submitted_token, session_token)
           THEN /\ branch' = [branch EXCEPT ![r] = "l66"]
                /\ pc' = [pc EXCEPT ![r] = "raised"]
                /\ result' = [result EXCEPT ![r] = HTTPException403]
           ELSE /\ branch' = [branch EXCEPT ![r] = "l68"]
                /\ pc' = [pc EXCEPT ![r] = "call"]
                /\ UNCHANGED result
    /\ UNCHANGED <<rendered, sanitizer, hdr>>
    /\ UNCHANGED <<session, request, state_csrf_token, calls,
                   response>>

\* lines 39, 44, 68: await call_next(request), the call
CallNext(r) ==
    /\ pc[r] = "call"
    /\ calls' = [calls EXCEPT ![r] = @ + 1]
    /\ pc' = [pc EXCEPT ![r] = "await"]
    /\ UNCHANGED <<rendered, sanitizer, hdr>>
    /\ UNCHANGED <<session, request, state_csrf_token, branch,
                   response, result>>

\* lines 39, 44, 68: the downstream handler answers
HandlerReturns(r, responses) ==
    /\ pc[r] = "await"
    /\ \E resp \in responses : response' = [response EXCEPT ![r] = resp]
    /\ pc' = [pc EXCEPT ![r] = AfterCallNext(branch[r])]
    /\ UNCHANGED <<rendered, sanitizer, hdr>>
    /\ UNCHANGED <<session, request, state_csrf_token, branch,
                   calls, result>>

\* lines 40, 45, 69: return response
Return(r) ==
    /\ pc[r] = "return"
    /\ result' = [result EXCEPT ![r] = response[r]]
    /\ pc' = [pc EXCEPT ![r] = "returned"]
    /\ UNCHANGED <<rendered, sanitizer, hdr>>
    /\ UNCHANGED <<session, request, state_csrf_token, branch,
                   calls, response>>

\* the request is over; its slot serves the next request
Finish(r) ==
    /\ pc[r] \in {"returned", "raised"}
    /\ pc' = [pc EXCEPT ![r] = "idle"]
    /\ request' = [request EXCEPT ![r] = NoRequest]
    /\ state_csrf_token' = [state_csrf_token EXCEPT ![r] = Unset]
    /\ branch' = [branch EXCEPT ![r] = "none"]
    /\ calls' = [calls EXCEPT ![r] = 0]
    /\ response' = [response EXCEPT ![r] = NoResult]
    /\ result' = [result EXCEPT ![r] = NoResult]
    /\ rendered' = [rendered EXCEPT ![r] = <<>>]
    /\ UNCHANGED <<session, sanitizer, hdr>>

\* one step of dispatch() for request r
Step(r) ==
    \/ Check26(r)
    \/ Gen27(r)
    \/ SetState(r)
    \/ Validate(r)
    \/ CallNext(r)
    \/ Return(r)
    \/ Finish(r)

\* requests in flight at once
ArriveConc(r) == Arrive(r, ConcInputs)

HandlerConc(r) == HandlerReturns(r, ConcResponses)

HandlerSeq(r) == HandlerReturns(r, Responses)

\* requests one at a time
ArriveSeq(r) ==
    /\ \A q \in Requests : pc[q] = "idle"
    /\ Arrive(r, Inputs)

Next == \E r \in Requests : ArriveConc(r) \/ Step(r) \/ HandlerConc(r)

NextSeq == \E r \in Requests : ArriveSeq(r) \/ Step(r) \/ HandlerSeq(r)

\* concurrent requests on the same session, representative inputs
Spec == Init /\ [][Next]_vars

\* requests processed one after the other, every input
SpecSeq == Init /\ [][NextSeq]_vars

---------------------------------------------------------------------------
(* Vocabulary of the properties, stated without the operators of dispatch() *)

\* r has left lines 36-66
PastDecision(r) == pc[r] \in {"call", "await", "return", "returned", "raised"}

\* r was let through to the handler
Accepted(r) == pc[r] \in {"call", "await", "return", "returned"}

\* r was rejected with the 403 error
Rejected(r) == pc[r] = "raised" /\ result[r] = HTTPException403

IsMutatingMethod(m) == m \in {"POST", "PUT", "DELETE", "PATCH"}

IsExemptPath(p) == p # <<>> /\ p[1] \in {"/upload-image", "/upload-video"}

\* a state-mutating request to a non-exempt path that carries a session
IsChecked(q) ==
    q.has_session /\ IsMutatingMethod(q.method) /\ ~IsExemptPath(q.path)

IsFormContentType(c) ==
    c # <<>> /\ c[1] \in {"application/x-www-form-urlencoded", "multipart/form-data"}

\* the form field csrf_token the request presents (None when it presents none)
FormField(q) ==
    IF IsFormContentType(q.content_type) /\ q.body # Malformed
    THEN q.body ELSE None

NonEmpty(x) == x # None /\ x # ""

\* the submitted token: the form field, else the header
Submitted(q) == IF NonEmpty(FormField(q)) THEN FormField(q) ELSE q.header

---------------------------------------------------------------------------
(* C1 *)

\* C1: a POST, PUT, DELETE or PATCH request to a non-exempt path that carries
\* a session leaves the decision of lines 36-66 towards the handler if and
\* only if the submitted token (form field, else header) is non-empty and
\* equals the session's csrf_token; otherwise it is rejected with the 403
\* "CSRF token validation failed" error.
C1_AcceptedIffTokenMatches ==
    [][\A r \in Requests :
         (pc[r] = "l36" /\ pc'[r] # "l36" /\ IsChecked(request[r])) =>
            IF /\ NonEmpty(Submitted(request[r]))
               /\ NonEmpty(session)
               /\ Submitted(request[r]) = session
            THEN pc'[r] = "call" /\ result'[r] = NoResult
            ELSE /\ pc'[r] = "raised"
                 /\ result'[r].kind = "HTTPException"
                 /\ result'[r].status = 403
                 /\ result'[r].detail = "CSRF token validation failed"]_vars

\* a checked request whose form token equals the session's token is about to
\* reach the handler
C1_Witness ==
    \E r \in Requests :
        /\ pc[r] = "call"
        /\ IsChecked(request[r])
        /\ FormField(request[r]) = session
        /\ session \in Tokens

---------------------------------------------------------------------------
(* C2 *)

\* C2: dispatch invokes call_next exactly once and returns its response
\* unchanged, except when validation fails, where it invokes call_next zero
\* times; call_next is never invoked twice.
C2_CallNextOnce ==
    \A r \in Requests :
        /\ calls[r] <= 1
        /\ pc[r] = "raised" => calls[r] = 0 /\ result[r] = HTTPException403
        /\ pc[r] = "returned" =>
              /\ calls[r] = 1
              /\ response[r] \in Responses
              /\ result[r] = response[r]

\* a request to an exempt path has returned the handler's redirect
C2_Witness ==
    \E r \in Requests :
        /\ pc[r] = "returned"
        /\ branch[r] = "l39"
        /\ result[r].status = 302

---------------------------------------------------------------------------
(* C3 *)

\* C3: once the session holds a csrf_token, processing later requests, one
\* after the other, leaves the value unchanged: no rotation, no overwrite, no
\* removal, and no way back from TOKEN_ISSUED to NO_TOKEN.
C3_TokenNeverRotated ==
    [][session # None => session' = session]_vars

\* a later request of a session that holds a token was rejected
C3_Witness ==
    \E r \in Requests :
        /\ Rejected(r)
        /\ request[r].has_session
        /\ session \in Tokens
        /\ state_csrf_token[r] = session

---------------------------------------------------------------------------
(* C4 *)

\* C4: a GET, HEAD, OPTIONS or TRACE request is never rejected, whatever the
\* session and the tokens: it reaches the handler.
C4_SafeMethodsNeverRejected ==
    \A r \in Requests :
        (PastDecision(r) /\ request[r].method \in {"GET", "HEAD", "OPTIONS", "TRACE"})
            => /\ Accepted(r)
               /\ result[r].kind # "HTTPException"
               /\ pc[r] \in {"await", "return", "returned"} => calls[r] = 1

\* a GET with a session and a wrong header token is with the handler
C4_Witness ==
    \E r \in Requests :
        /\ pc[r] = "await"
        /\ request[r].method = "GET"
        /\ request[r].has_session
        /\ NonEmpty(request[r].header)
        /\ request[r].header # session

---------------------------------------------------------------------------
(* C5 *)

\* C5: a request whose path starts with /upload-image or /upload-video is
\* never validated: it reaches the handler whatever its method, its session
\* and its token.
C5_ExemptPathSkipsValidation ==
    \A r \in Requests :
        (PastDecision(r) /\ IsExemptPath(request[r].path))
            => /\ Accepted(r)
               /\ result[r].kind # "HTTPException"
               /\ pc[r] \in {"await", "return", "returned"} => calls[r] = 1

\* a POST below /upload-video with a session and no token is with the handler
C5_Witness ==
    \E r \in Requests :
        /\ pc[r] = "await"
        /\ request[r].method = "POST"
        /\ request[r].has_session
        /\ request[r].path = <<"/upload-video", "/1">>
        /\ Submitted(request[r]) = None

---------------------------------------------------------------------------
(* C6 *)

\* C6: a request without a session is never rejected (a state-mutating one
\* with no token included), its request.state.csrf_token is "", and its
\* processing generates and stores no token.
C6_NoSessionNeverRejected ==
    [][\A r \in Requests :
         (pc'[r] # "idle" /\ ~request'[r].has_session) =>
            /\ pc'[r] \notin {"l27", "raised"}
            /\ result'[r].kind # "HTTPException"
            /\ pc'[r] \notin {"l26", "l30"} => state_csrf_token'[r] = ""
            /\ pc'[r] # pc[r] => session' = session]_vars

\* a DELETE without session and without token is with the handler, and no
\* token was stored
C6_Witness ==
    \E r \in Requests :
        /\ pc[r] = "await"
        /\ ~request[r].has_session
        /\ request[r].method = "DELETE"
        /\ ~IsExemptPath(request[r].path)
        /\ Submitted(request[r]) = None
        /\ state_csrf_token[r] = ""
        /\ session = None

---------------------------------------------------------------------------
(* C7 *)

\* r has executed lines 30-33
AfterSetPcs == {"l36", "call", "await", "return", "returned", "raised"}

\* C7 as stated: from the point where dispatch has set
\* request.state.csrf_token until the request finishes, the request-context
\* token of a request with a session equals the session's csrf_token.
C7_Original ==
    \A r \in Requests :
        (request[r].has_session /\ pc[r] \in AfterSetPcs)
            => state_csrf_token[r] = session

\* C7 as amended: request.state.csrf_token of a request with a session
\* equals the session's csrf_token at the moment lines 30-31 set it, and
\* dispatch never changes it afterwards (it is a copy; it follows no later
\* write to the session).
C7_StateTokenIsSnapshot ==
    [][\A r \in Requests :
         request'[r].has_session =>
            /\ (pc[r] = "l30" /\ pc'[r] \in AfterSetPcs) =>
                  /\ session' = session
                  /\ state_csrf_token'[r] = IF session = None THEN "" ELSE session
            /\ (pc[r] \in AfterSetPcs /\ pc'[r] \in AfterSetPcs) =>
                  state_csrf_token'[r] = state_csrf_token[r]]_vars

\* the handler runs for a request whose context token is the session's token
C7_Witness ==
    \E r \in Requests :
        /\ pc[r] = "await"
        /\ request[r].has_session
        /\ state_csrf_token[r] \in Tokens
        /\ state_csrf_token[r] = session

---------------------------------------------------------------------------
(* C8 *)

\* C8: once dispatch has passed lines 26-27 for a request that carries a
\* session, and so after it has processed the request, the session holds a
\* csrf_token, whatever the method, the path and the outcome.
C8_SessionGainsToken ==
    \A r \in Requests :
        (request[r].has_session /\ pc[r] \notin {"idle", "l26", "l27"})
            => session \in Tokens

\* a GET of a session has returned and the session holds a token
C8_Witness ==
    \E r \in Requests :
        /\ pc[r] = "returned"
        /\ request[r].has_session
        /\ request[r].method = "GET"
        /\ session \in Tokens

---------------------------------------------------------------------------
(* C9 *)

\* the request presents a form field csrf_token and a header X-CSRF-Token
PresentsBoth(q) == FormField(q) # None /\ q.header # None

\* C9 as stated: when a checked request presents both a form field and a
\* header, the form field alone decides: accepted iff the form field equals
\* the session's token.
C9_Original ==
    \A r \in Requests :
        (PastDecision(r) /\ IsChecked(request[r]) /\ PresentsBoth(request[r]))
            => (Accepted(r) <=> FormField(request[r]) = session)

\* C9 as amended: a form field that is present and non-empty alone decides
\* (accepted iff it equals the session's token, whatever the header); the
\* header decides when the form field is absent or empty.
C9_NonEmptyFormFieldWins ==
    \A r \in Requests :
        (PastDecision(r) /\ IsChecked(request[r])) =>
            LET f == FormField(request[r])
                h == request[r].header
            IN  /\ NonEmpty(f) => (Accepted(r) <=> f = session)
                /\ ~NonEmpty(f) => (Accepted(r) <=> (NonEmpty(h) /\ h = session))
                /\ ~Accepted(r) => Rejected(r)

\* accepted on the form field although the header carries another token
C9_Witness ==
    \E r \in Requests :
        /\ pc[r] = "call"
        /\ IsChecked(request[r])
        /\ FormField(request[r]) = session
        /\ NonEmpty(request[r].header)
        /\ request[r].header # session

---------------------------------------------------------------------------
(* C10 *)

\* the body of a form request of r does not parse
ParseFails(q) == IsFormContentType(q.content_type) /\ q.body = Malformed

\* C10: when the body of a checked request does not parse, no parse error
\* leaves dispatch: the header alone decides, and the request either reaches
\* the handler (header equals the session's token) or fails with 403.
C10_ParseFailureSwallowed ==
    \A r \in Requests :
        (PastDecision(r) /\ IsChecked(request[r]) /\ ParseFails(request[r])) =>
            LET h == request[r].header
            IN  /\ result[r] # FormParseError
                /\ Accepted(r) <=> (NonEmpty(h) /\ h = session)
                /\ ~Accepted(r) => Rejected(r)

\* a multipart request whose body does not parse is accepted on its header
C10_Witness ==
    \E r \in Requests :
        /\ pc[r] = "call"
        /\ IsChecked(request[r])
        /\ ParseFails(request[r])
        /\ request[r].content_type = <<"multipart/form-data", "; boundary=x">>
        /\ request[r].header = session

---------------------------------------------------------------------------
(* C11 *)

\* every request of the session in flight has left dispatch
AllFinished ==
    /\ \E r \in Requests : request[r].has_session
    /\ \A r \in Requests :
          request[r].has_session => pc[r] \in {"returned", "raised"}

\* C11: the test of line 26 and the store of line 27 are not atomic: two
\* requests of a token-less session may both store a token, and each store
\* replaces the session's token by the one it generated (the last write
\* wins); the session holds a token whenever the requests have finished, and
\* a session that holds a token never goes back to holding none.
C11_LastWriteWins ==
    [][/\ session # None => session' \in Tokens
       /\ \A r \in Requests :
             (pc[r] = "l27" /\ pc'[r] # "l27") => session' \in Tokens
       /\ session' # session =>
             \E r \in Requests : pc[r] = "l27" /\ pc'[r] = "l30"
       /\ AllFinished' => session' \in Tokens]_vars

\* two requests of the session have finished after each generated a token of
\* its own: they saw different tokens and the session holds the later one
C11_Witness ==
    \E r1, r2 \in Requests :
        /\ r1 # r2
        /\ AllFinished
        /\ request[r1].has_session /\ request[r2].has_session
        /\ state_csrf_token[r1] \in Tokens
        /\ state_csrf_token[r2] \in Tokens
        /\ state_csrf_token[r1] # state_csrf_token[r2]
        /\ session = state_csrf_token[r2]

---------------------------------------------------------------------------
(* generate_csrf_token (csrf.py, lines 81-85) *)

MaxTokenCalls == 2

\* generate_csrf_token reading the session instead of request.state
generate_csrf_token_FromSession(r) == SessionGet(session, "")

\* getattr(request.state, "csrf_token", "")
generate_csrf_token(r) ==
    IF state_csrf_token[r] = Unset THEN "" ELSE state_csrf_token[r]

\* a call of generate_csrf_token(request): by code that runs before dispatch
\* has attached the token, or by the handler and its templates during
\* call_next.  The call and what it returned are appended to rendered[r].
GenerateCsrfToken(r) ==
    /\ pc[r] \in {"l26", "await"}
    /\ Len(rendered[r]) < MaxTokenCalls
    /\ rendered' = [rendered EXCEPT
                      ![r] = Append(@, [ctx |-> state_csrf_token[r],
                                        value |-> generate_csrf_token(r)])]
    /\ UNCHANGED <<session, pc, request, state_csrf_token, branch, calls,
                   response, result, sanitizer, hdr>>

\* requests one at a time, representative inputs
ArriveTok(r) ==
    /\ \A q \in Requests : pc[q] = "idle"
    /\ Arrive(r, ConcInputs)

NextTok ==
    \E r \in Requests :
        ArriveTok(r) \/ Step(r) \/ HandlerConc(r) \/ GenerateCsrfToken(r)

\* dispatch() with callers of generate_csrf_token
SpecTok == Init /\ [][NextTok]_vars

---------------------------------------------------------------------------
(* C12 *)

\* C12: generate_csrf_token returns the token attached to the request
\* context, or "" if none was attached; a repeated call on the same request
\* context returns the same value; and a call changes neither the request
\* context nor the session.
C12_CurrentTokenReadOnly ==
    [][\A r \in Requests :
         (rendered'[r] # rendered[r] /\ rendered'[r] # <<>>) =>
            LET n == Len(rendered'[r])
                e == rendered'[r][n]
            IN  /\ n = Len(rendered[r]) + 1
                /\ e.value = IF state_csrf_token[r] = Unset
                             THEN "" ELSE state_csrf_token[r]
                /\ (n > 1 /\ rendered'[r][n - 1].ctx = e.ctx) =>
                      rendered'[r][n - 1].value = e.value
                /\ state_csrf_token' = state_csrf_token
                /\ session' = session
                /\ request' = request
                /\ pc' = pc]_vars

\* the handler of a request with a session called generate_csrf_token twice
\* and got the session's token twice
C12_Witness ==
    \E r \in Requests :
        /\ pc[r] = "await"
        /\ Len(rendered[r]) >= 2
        /\ rendered[r][1].value \in Tokens
        /\ rendered[r][2].value = rendered[r][1].value
        /\ rendered[r][1].ctx = state_csrf_token[r]

---------------------------------------------------------------------------
(* sanitize_filename and sanitize_username (xss_protection.py).  A string   *)
(* is the sequence of its characters.                                      *)

MaxInputLen == 3

MaxFilenameLength == 255
MaxUsernameLength == 30

LowerCase == <<"a", "b", "c", "d", "e", "f", "g", "h", "i", "j", "k", "l", "m", "n", "o", "p", "q", "r", "s", "t", "u", "v", "w", "x", "y", "z">>
UpperCase == <<"A", "B", "C", "D", "E", "F", "G", "H", "I", "J", "K", "L", "M", "N", "O", "P", "Q", "R", "S", "T", "U", "V", "W", "X", "Y", "Z">>
Digits == {"0", "1", "2", "3", "4", "5", "6", "7", "8", "9"}

\* [a-zA-Z0-9]
AlphaNumeric ==
    {LowerCase[i] : i \in 1..Len(LowerCase)}
        \cup {UpperCase[i] : i \in 1..Len(UpperCase)} \cup Digits

\* the class [a-zA-Z0-9._-] of line 139
FilenameClass == AlphaNumeric \cup {".", "_", "-"}

\* the class [a-zA-Z0-9_] of line 166
UsernameClass == AlphaNumeric \cup {"_"}

IsNotSlash(c) == c # "/"

IsNotBackslash(c) == c # "\\"

IsInUsernameClass(c) == c \in UsernameClass

\* re.sub(r'[^a-zA-Z0-9._-]', '_', s): every other character becomes "_"
SubFilenameClass(s) ==
    [i \in 1..Len(s) |-> IF s[i] \in FilenameClass THEN s[i] ELSE "_"]

\* c.lower() for one ASCII character
LowerChar(c) ==
    IF \E i \in 1..Len(UpperCase) : UpperCase[i] = c
    THEN LowerCase[CHOOSE i \in 1..Len(UpperCase) : UpperCase[i] = c]
    ELSE c

\* str.lower()
Lower(s) == [i \in 1..Len(s) |-> LowerChar(s[i])]

\* s[:n], after the test len(s) > n
Truncate(s, n) == IF Len(s) > n THEN SubSeq(s, 1, n) ELSE s

\* sanitize_filename, lines 132-145
sanitize_filename(filename) ==
    IF filename = <<>>
    THEN <<>>
    ELSE LET no_sep == SelectSeq(SelectSeq(filename, IsNotSlash), IsNotBackslash)
         IN  Truncate(SubFilenameClass(no_sep), MaxFilenameLength)

\* sanitize_username, lines 162-175
sanitize_username(username) ==
    IF username = <<>>
    THEN <<>>
    ELSE Truncate(Lower(SelectSeq(username, IsInUsernameClass)),
                  MaxUsernameLength)

\* the strings of at most n characters over an alphabet
StringsUpTo(alphabet, n) == UNION {[1..k -> alphabet] : k \in 0..n}

\* a string of n times the character c
Repeat(c, n) == [i \in 1..n |-> c]

\* the examples of the docstrings (lines 127, 129, 159)
DocTraversal == <<".", ".", "/", ".", ".", "/", "e", "t", "c", "/", "p", "a", "s", "s", "w", "d">>
DocSpecial == <<"m", "y", " ", "f", "i", "l", "e", "!", "@", "#", ".", "t", "x", "t">>
DocUsername == <<"U", "s", "e", "r", "<", "s", "c", "r", "i", "p", "t", ">", "1", "2", "3">>

FilenameInputs ==
    StringsUpTo({"a", "Z", "9", ".", "_", "-", "/", "\\", " ", "!"}, MaxInputLen)
        \cup {DocTraversal, DocSpecial,
              Repeat("a", MaxFilenameLength),
              Repeat("a", MaxFilenameLength + MaxInputLen),
              <<"/">> \o Repeat("!", MaxFilenameLength + 1)}

UsernameInputs ==
    StringsUpTo({"a", "U", "7", "_", "-", "<", ">", " "}, MaxInputLen)
        \cup {DocUsername,
              Repeat("A", MaxUsernameLength),
              Repeat("A", MaxUsernameLength + MaxInputLen),
              <<"<">> \o Repeat("_", MaxUsernameLength + 1)}

\* a call of sanitize_filename
CallSanitizeFilename ==
    /\ sanitizer = NoCall
    /\ \E s \in FilenameInputs :
          sanitizer' = [func |-> "sanitize_filename", input |-> s,
                        output |-> sanitize_filename(s)]
    /\ UNCHANGED <<session, pc, request, state_csrf_token, branch, calls,
                   response, result, rendered, hdr>>

\* a call of sanitize_username
CallSanitizeUsername ==
    /\ sanitizer = NoCall
    /\ \E s \in UsernameInputs :
          sanitizer' = [func |-> "sanitize_username", input |-> s,
                        output |-> sanitize_username(s)]
    /\ UNCHANGED <<session, pc, request, state_csrf_token, branch, calls,
                   response, result, rendered, hdr>>

NextSan == CallSanitizeFilename \/ CallSanitizeUsername

\* calls of the two sanitizers
SpecSan == Init /\ [][NextSan]_vars

---------------------------------------------------------------------------
(* C13 *)

\* every character of s is in the class
OnlyFrom(s, class) == \A i \in 1..Len(s) : s[i] \in class

\* C13: sanitize_filename returns "passwd" for "../../etc/passwd" and
\* "my_file.txt" for "my file!@#.txt", and for every input a result without
\* "/" and "\", made of characters of [a-zA-Z0-9._-] only, of at most 255
\* characters.
C13_Original ==
    sanitizer.func = "sanitize_filename" =>
        /\ sanitizer.input = DocTraversal => sanitizer.output = <<"p", "a", "s", "s", "w", "d">>
        /\ sanitizer.input = DocSpecial => sanitizer.output = <<"m", "y", "_", "f", "i", "l", "e", ".", "t", "x", "t">>
        /\ \A i \in 1..Len(sanitizer.output) :
              sanitizer.output[i] \notin {"/", "\\"}
        /\ OnlyFrom(sanitizer.output, AlphaNumeric \cup {".", "_", "-"})
        /\ Len(sanitizer.output) <= 255

---------------------------------------------------------------------------
(* C14 *)

\* C14: sanitize_username returns "user123" for "User<script>123", and for
\* every input a result made of characters of [a-z0-9_] only, of at most 30
\* characters.
C14_Original ==
    sanitizer.func = "sanitize_username" =>
        /\ sanitizer.input = DocUsername => sanitizer.output = <<"u", "s", "e", "r", "1", "2", "3">>
        /\ OnlyFrom(sanitizer.output,
                    {LowerCase[i] : i \in 1..Len(LowerCase)} \cup Digits \cup {"_"})
        /\ Len(sanitizer.output) <= 30

---------------------------------------------------------------------------
(* AddSecurityHeadersMiddleware.dispatch (asgi_middleware.py, lines 20-91) *)

\* a header the response does not carry
Absent == "<absent>"

\* the headers dispatch adds on every path
SecurityHeaders ==
    {"X-Frame-Options", "Content-Security-Policy", "X-Content-Type-Options",
     "Cross-Origin-Resource-Policy", "Cross-Origin-Embedder-Policy",
     "Cross-Origin-Opener-Policy", "Permissions-Policy"}

\* the headers dispatch adds on sensitive paths
CacheHeaders == {"Cache-Control", "Pragma", "Expires"}

HeaderNames == SecurityHeaders \cup CacheHeaders

\* line 79
sensitive_paths ==
    <<(<<"/login">>), (<<"/register">>), (<<"/threads">>), (<<"/create">>),
      (<<"/edit">>)>>

\* line 80
IsSensitive(path) ==
    \E i \in 1..Len(sensitive_paths) : StartsWith(path, sensitive_paths[i])

\* lines 30-46
ContentSecurityPolicy ==
    "default-src 'self'; script-src 'self'; style-src 'self'; img-src 'self' data:; font-src 'self'; connect-src 'self'; frame-ancestors 'none'; form-action 'self'; base-uri 'self'; object-src 'none'; frame-src 'none'; media-src 'self'; manifest-src 'self'; worker-src 'self'"

\* lines 66-76
PermissionsPolicy ==
    "camera=(), microphone=(), geolocation=(), payment=(), usb=(), magnetometer=(), accelerometer=(), gyroscope=()"

\* response.headers[name] = value without the test of its absence
SetDefault_Overwrite(h, name, value) == [h EXCEPT ![name] = value]

\* if name not in response.headers: response.headers[name] = value
SetDefault(h, name, value) ==
    IF h[name] # Absent THEN h ELSE [h EXCEPT ![name] = value]

\* lines 23-84, applied to the headers of the downstream response
AddSecurityHeaders(path, h0) ==
    LET h1 == SetDefault(h0, "X-Frame-Options", "DENY")
        h2 == SetDefault(h1, "Content-Security-Policy", ContentSecurityPolicy)
        h3 == SetDefault(h2, "X-Content-Type-Options", "nosniff")
        h4 == SetDefault(h3, "Cross-Origin-Resource-Policy", "same-origin")
        h5 == SetDefault(h4, "Cross-Origin-Embedder-Policy", "require-corp")
        h6 == SetDefault(h5, "Cross-Origin-Opener-Policy", "same-origin")
        h7 == SetDefault(h6, "Permissions-Policy", PermissionsPolicy)
    IN  IF IsSensitive(path) /\ h7["Cache-Control"] = Absent
        THEN [h7 EXCEPT
                !["Cache-Control"] = "no-cache, no-store, must-revalidate, private",
                !["Pragma"] = "no-cache",
                !["Expires"] = "0"]
        ELSE h7

\* the paths of the requests, as sequences of chunks
HdrPaths ==
    {<<"/login">>, <<"/login", "2">>, <<"/register">>, <<"/threads", "/1">>,
     <<"/create">>, <<"/edit", "/7">>, <<"/">>, <<"/log">>, <<"/api", "/login">>}

\* the headers a downstream response may carry: each header is absent or
\* carries the value the handler gave it
DownstreamHeaders == [HeaderNames -> {Absent, "set by handler"}]

\* a request enters dispatch
HdrArrive ==
    /\ hdr = NoHdr
    /\ \E p \in HdrPaths :
          hdr' = [pc |-> "l21", path |-> p, downstream |-> <<>>, headers |-> <<>>]
    /\ UNCHANGED <<session, pc, request, state_csrf_token, branch, calls,
                   response, result, rendered, sanitizer>>

\* line 21: response = await call_next(request)
HdrCallNext ==
    /\ hdr.pc = "l21"
    /\ \E d \in DownstreamHeaders :
          hdr' = [hdr EXCEPT !.pc = "l24", !.downstream = d, !.headers = d]
    /\ UNCHANGED <<session, pc, request, state_csrf_token, branch, calls,
                   response, result, rendered, sanitizer>>

\* lines 23-91
HdrReturn ==
    /\ hdr.pc = "l24"
    /\ hdr' = [hdr EXCEPT !.pc = "returned",
                          !.headers = AddSecurityHeaders(hdr.path, hdr.headers)]
    /\ UNCHANGED <<session, pc, request, state_csrf_token, branch, calls,
                   response, result, rendered, sanitizer>>

NextHdr == HdrArrive \/ HdrCallNext \/ HdrReturn

\* one request through AddSecurityHeadersMiddleware
SpecHdr == Init /\ [][NextHdr]_vars

---------------------------------------------------------------------------
(* C15 *)

\* the path starts with /login, /register, /threads, /create or /edit
IsSensitivePath(p) ==
    p # <<>> /\ p[1] \in {"/login", "/register", "/threads", "/create", "/edit"}

\* C15: the response dispatch returns carries the seven security headers,
\* each with the handler's value when the handler set one; on a path
\* starting with /login, /register, /threads, /create or /edit it also
\* carries Cache-Control, and Pragma and Expires are added exactly when the
\* handler did not set Cache-Control; on any other path Cache-Control, Pragma
\* and Expires are as the handler left them.
C15_SecurityHeaders ==
    hdr.pc = "returned" =>
        /\ \A n \in {"X-Frame-Options", "Content-Security-Policy",
                     "X-Content-Type-Options", "Cross-Origin-Resource-Policy",
                     "Cross-Origin-Embedder-Policy", "Cross-Origin-Opener-Policy",
                     "Permissions-Policy"} :
              /\ hdr.headers[n] # Absent
              /\ hdr.downstream[n] # Absent => hdr.headers[n] = hdr.downstream[n]
        /\ IsSensitivePath(hdr.path) =>
              /\ hdr.headers["Cache-Control"] # Absent
              /\ IF hdr.downstream["Cache-Control"] = Absent
                 THEN /\ hdr.headers["Pragma"] = "no-cache"
                      /\ hdr.headers["Expires"] = "0"
                 ELSE /\ hdr.headers["Cache-Control"] = hdr.downstream["Cache-Control"]
                      /\ hdr.headers["Pragma"] = hdr.downstream["Pragma"]
                      /\ hdr.headers["Expires"] = hdr.downstream["Expires"]
        /\ ~IsSensitivePath(hdr.path) =>
              \A n \in {"Cache-Control", "Pragma", "Expires"} :
                  hdr.headers[n] = hdr.downstream[n]

\* a response for /login2 whose handler set X-Frame-Options and no
\* Cache-Control: the handler's value is kept and the cache headers are added
C15_Witness ==
    /\ hdr.pc = "returned"
    /\ hdr.path = <<"/login", "2">>
    /\ hdr.downstream["X-Frame-Options"] = "set by handler"
    /\ hdr.headers["X-Frame-Options"] = "set by handler"
    /\ hdr.downstream["Cache-Control"] = Absent
    /\ hdr.headers["Cache-Control"] = "no-cache, no-store, must-revalidate, private"
    /\ hdr.headers["Content-Security-Policy"] = ContentSecurityPolicy

====
